---- MODULE Spec2Model ----
(***************************************************************************)
(* Model of src/autogen/autogen_custom_problems.py: the phase chain of     *)
(* CustomProblemWorkflow (construction, run, execute_phase, print_summary) *)
(* and the scenario selection and error handling of main().                *)
(*                                                                         *)
(* Text is a sequence of tokens.  Phase names, scenario ids, topics,       *)
(* console inputs and model replies are spelled character by character,    *)
(* so that lower(), upper(), strip(), replace() and join() are computed;   *)
(* the literal pieces of the format strings and the instruction prompts    *)
(* are single tokens.                                                      *)
(***************************************************************************)
EXTENDS Integers, Sequences, FiniteSets, TLC

VARIABLES
    argv,          \* sys.argv of the current invocation (argv[1] is the program name)
    configValid,   \* what Config.validate_setup() returns in this invocation
    pc,            \* position of the process: "main", "init", "run", "call", "exited"
    choice,        \* main's local `choice`: the menu input, stripped and lowercased
    scenario,      \* main's local `scenario`, later self.scenario_type
    topic,         \* main's local `topic`, later self.topic
    outputs,       \* self.outputs: insertion-ordered mapping, a sequence of [key, value]
    phase_num,     \* loop index i of run(); 0 before the first phase
    user_message,  \* the user message of the completion call last issued
    calls,         \* calls[i]: completion calls issued for phase i in this invocation
    stdout,        \* what the invocation printed, as a sequence of events
    outcome,       \* "none", "success", "error" (except branch of main), "exit"
    exit_code,     \* exit status of the process; NoExit while it runs
    files,         \* the working directory: file name -> the invocation that wrote it
    result_file,   \* what this invocation wrote to its result file; <<>> if nothing
    clock,         \* datetime.now() truncated to the second, as last observed
    run_id         \* number of the invocation

vars == <<argv, configValid, pc, choice, scenario, topic, outputs, phase_num,
          user_message, calls, stdout, outcome, exit_code, files, result_file,
          clock, run_id>>

(***************************************************************************)
(* Bounds                                                                  *)
(***************************************************************************)
MaxRuns == 2       \* invocations sharing one working directory
MaxClock == 1      \* clock readings 0..MaxClock

NoExit == 0 - 1   \* exit_code of a process that has not exited

(***************************************************************************)
(* Strings                                                                 *)
(***************************************************************************)
UPPERCASE == <<"A","B","C","D","E","F","G","H","I","J","K","L","M",
               "N","O","P","Q","R","S","T","U","V","W","X","Y","Z">>
LOWERCASE == <<"a","b","c","d","e","f","g","h","i","j","k","l","m",
               "n","o","p","q","r","s","t","u","v","w","x","y","z">>

LowerChar(c) ==
    IF \E i \in 1..26 : UPPERCASE[i] = c
    THEN LOWERCASE[CHOOSE i \in 1..26 : UPPERCASE[i] = c]
    ELSE c

UpperChar(c) ==
    IF \E i \in 1..26 : LOWERCASE[i] = c
    THEN UPPERCASE[CHOOSE i \in 1..26 : LOWERCASE[i] = c]
    ELSE c

\* str.lower()
Lower(s) == [i \in 1..Len(s) |-> LowerChar(s[i])]

\* str.upper()
Upper(s) == [i \in 1..Len(s) |-> UpperChar(s[i])]

\* str.replace(' ', '_')
ReplaceSpaces(s) == [i \in 1..Len(s) |-> IF s[i] = " " THEN "_" ELSE s[i]]

RECURSIVE LStrip(_)
LStrip(s) == IF s # <<>> /\ Head(s) = " " THEN LStrip(Tail(s)) ELSE s

RECURSIVE RStrip(_)
RStrip(s) ==
    IF s # <<>> /\ s[Len(s)] = " " THEN RStrip(SubSeq(s, 1, Len(s) - 1)) ELSE s

\* str.strip()
Strip(s) == RStrip(LStrip(s))

\* " ".join(words)
RECURSIVE Join(_)
Join(words) ==
    IF words = <<>> THEN <<>>
    ELSE IF Len(words) = 1 THEN words[1]
    ELSE words[1] \o <<" ">> \o Join(Tail(words))

(***************************************************************************)
(* The scenario table                                                      *)
(***************************************************************************)
ID_conference   == <<"c","o","n","f","e","r","e","n","c","e">>
ID_marketing    == <<"m","a","r","k","e","t","i","n","g">>
ID_research     == <<"r","e","s","e","a","r","c","h">>
ID_architecture == <<"a","r","c","h","i","t","e","c","t","u","r","e">>

SCENARIOS ==
    ID_conference :> [
      name   |-> "3-Day Conference Agenda Planning",
      phases |-> <<
        [ name   |-> <<"R", "e", "s", "e", "a", "r", "c", "h", " ", "&", " ", "R", "e", "q", "u", "i", "r", "e", "m", "e", "n", "t", "s">>,
          agent  |-> "Conference Researcher",
          prompt |-> <<"You are a conference planning expert. ...">> ],
        [ name   |-> <<"A", "g", "e", "n", "d", "a", " ", "S", "t", "r", "u", "c", "t", "u", "r", "e">>,
          agent  |-> "Agenda Designer",
          prompt |-> <<"You are an agenda design specialist. ...">> ],
        [ name   |-> <<"C", "o", "n", "t", "e", "n", "t", " ", "P", "l", "a", "n", "n", "i", "n", "g">>,
          agent  |-> "Content Strategist",
          prompt |-> <<"You are a content strategist. ...">> ],
        [ name   |-> <<"F", "i", "n", "a", "l", " ", "R", "e", "v", "i", "e", "w">>,
          agent  |-> "Conference Reviewer",
          prompt |-> <<"You are a conference quality reviewer. ...">> ]
      >> ] @@
    ID_marketing :> [
      name   |-> "Marketing Strategy Design",
      phases |-> <<
        [ name   |-> <<"M", "a", "r", "k", "e", "t", " ", "A", "n", "a", "l", "y", "s", "i", "s">>,
          agent  |-> "Market Analyst",
          prompt |-> <<"You are a market analyst. ...">> ],
        [ name   |-> <<"S", "t", "r", "a", "t", "e", "g", "y", " ", "D", "e", "v", "e", "l", "o", "p", "m", "e", "n", "t">>,
          agent  |-> "Marketing Strategist",
          prompt |-> <<"You are a marketing strategist. ...">> ],
        [ name   |-> <<"T", "a", "c", "t", "i", "c", "a", "l", " ", "P", "l", "a", "n", "n", "i", "n", "g">>,
          agent  |-> "Marketing Tactician",
          prompt |-> <<"You are a marketing tactician. ...">> ],
        [ name   |-> <<"S", "u", "c", "c", "e", "s", "s", " ", "M", "e", "t", "r", "i", "c", "s">>,
          agent  |-> "Marketing Analyst",
          prompt |-> <<"You are a marketing analyst. ...">> ]
      >> ] @@
    ID_research :> [
      name   |-> "Research Paper Outline",
      phases |-> <<
        [ name   |-> <<"T", "o", "p", "i", "c", " ", "R", "e", "s", "e", "a", "r", "c", "h">>,
          agent  |-> "Research Specialist",
          prompt |-> <<"You are a research specialist. ...">> ],
        [ name   |-> <<"O", "u", "t", "l", "i", "n", "e", " ", "S", "t", "r", "u", "c", "t", "u", "r", "e">>,
          agent  |-> "Academic Writer",
          prompt |-> <<"You are an academic writer. ...">> ],
        [ name   |-> <<"C", "o", "n", "t", "e", "n", "t", " ", "P", "l", "a", "n", "n", "i", "n", "g">>,
          agent  |-> "Content Planner",
          prompt |-> <<"You are a content planner. ...">> ],
        [ name   |-> <<"R", "e", "v", "i", "e", "w", " ", "&", " ", "R", "e", "f", "i", "n", "e", "m", "e", "n", "t">>,
          agent  |-> "Academic Reviewer",
          prompt |-> <<"You are an academic reviewer. ...">> ]
      >> ] @@
    ID_architecture :> [
      name   |-> "Software Architecture Planning",
      phases |-> <<
        [ name   |-> <<"R", "e", "q", "u", "i", "r", "e", "m", "e", "n", "t", "s", " ", "A", "n", "a", "l", "y", "s", "i", "s">>,
          agent  |-> "Systems Analyst",
          prompt |-> <<"You are a systems analyst. ...">> ],
        [ name   |-> <<"A", "r", "c", "h", "i", "t", "e", "c", "t", "u", "r", "e", " ", "D", "e", "s", "i", "g", "n">>,
          agent  |-> "Software Architect",
          prompt |-> <<"You are a software architect. ...">> ],
        [ name   |-> <<"T", "e", "c", "h", "n", "i", "c", "a", "l", " ", "P", "l", "a", "n", "n", "i", "n", "g">>,
          agent  |-> "Technical Lead",
          prompt |-> <<"You are a technical lead. ...">> ],
        [ name   |-> <<"A", "r", "c", "h", "i", "t", "e", "c", "t", "u", "r", "e", " ", "R", "e", "v", "i", "e", "w">>,
          agent  |-> "Architecture Reviewer",
          prompt |-> <<"You are an architecture reviewer. ...">> ]
      >> ]

ScenarioIds == DOMAIN SCENARIOS

\* len(self.scenario['phases'])
NumPhases(sid) == Len(SCENARIOS[sid].phases)

(***************************************************************************)
(* Inputs of an invocation: command lines, console inputs, model replies   *)
(***************************************************************************)
PROG      == <<"a","u","t","o","g","e","n",".","p","y">>
S_1       == <<"1">>
S_2       == <<"2">>
S_3       == <<"3">>
S_4       == <<"4">>
S_5       == <<"5">>
S_banquet == <<"b","a","n","q","u","e","t">>
T_AI      == <<"A","I">>
T_Smart   == <<"S","m","a","r","t">>
T_Home    == <<"H","o","m","e">>

ArgvChoices ==
    { <<PROG>>,
      <<PROG, ID_conference>>,
      <<PROG, Upper(ID_marketing), T_Smart, T_Home>>,
      <<PROG, <<"R">> \o Tail(ID_research), T_AI>>,
      <<PROG, ID_architecture, <<>> >>,
      <<PROG, S_banquet>>,
      <<PROG, S_1>>,
      <<PROG, <<" ">> \o ID_conference>> }

ChoiceInputs ==
    { S_1, S_2, S_3, S_4, S_5, <<>>, S_banquet,
      ID_conference, ID_research, ID_architecture,
      <<" ">> \o Upper(ID_marketing) \o <<" ">> }

TopicInputs == { <<>>, T_AI, <<" ">> \o T_Smart \o <<" ">> \o T_Home \o <<" ">> }

\* response.choices[0].message.content of a successful completion call
Replies == { <<"o","k">>, <<"P","l","a","n"," ","B">> }

(***************************************************************************)
(* self.outputs: a dict, which keeps its keys in insertion order           *)
(***************************************************************************)
DictHas(d, k) == \E i \in 1..Len(d) : d[i].key = k

DictGet(d, k) == d[CHOOSE i \in 1..Len(d) : d[i].key = k].value

\* DictSet as `self.outputs = {k: v}`: the assignment replaces the mapping
DictSet_rebinds(d, k, v) == <<[key |-> k, value |-> v]>>

\* d[k] = v
DictSet(d, k, v) ==
    IF DictHas(d, k)
    THEN [i \in 1..Len(d) |-> IF d[i].key = k THEN [key |-> k, value |-> v] ELSE d[i]]
    ELSE Append(d, [key |-> k, value |-> v])

DictKeys(d) == [i \in 1..Len(d) |-> d[i].key]

(***************************************************************************)
(* execute_phase: the storage key and the user message                     *)
(***************************************************************************)
\* store_key without .replace(' ', '_')
store_key_keeps_spaces(phase_config) == Lower(phase_config.name)

\* store_key without .lower()
store_key_keeps_case(phase_config) == ReplaceSpaces(phase_config.name)

\* phase_config['name'].lower().replace(' ', '_') where the output is stored
store_key(phase_config) == ReplaceSpaces(Lower(phase_config.name))

\* context_key without .lower()
context_key_keeps_case(prev_phase) == ReplaceSpaces(prev_phase.name)

\* prev_phase['name'].lower().replace(' ', '_') where the context is built
context_key(prev_phase) == ReplaceSpaces(Lower(prev_phase.name))

\* phase['name'].lower().replace(' ', '_') where the summary is printed
summary_key(phase) == ReplaceSpaces(Lower(phase.name))

\* phase['name'].lower().replace(' ', '_') where the result file is written
file_key(phase) == ReplaceSpaces(Lower(phase.name))

PREVIOUS_HEADER == "\n\nPrevious Phase Results:\n"
TOPIC_LABEL     == "Topic/Product: "
NL              == "\n"
COLON_NL        == ":\n"
NLNL            == "\n\n"

\* f"\n{prev_phase['name']}:\n{self.outputs[phase_key]}\n"
PhaseBlock(prev_phase, text) == <<NL>> \o prev_phase.name \o <<COLON_NL>> \o text \o <<NL>>

\* the phases the context loop visits: self.scenario['phases'][:phase_num-1]
PreviousPhases(phases, n) == SubSeq(phases, 1, n - 1)

\* the loop over the previous phases, appending a block for each stored output
RECURSIVE ContextBlocks(_, _)
ContextBlocks(prev, outs) ==
    IF prev = <<>> THEN <<>>
    ELSE (IF DictHas(outs, context_key(Head(prev)))
          THEN PhaseBlock(Head(prev), DictGet(outs, context_key(Head(prev))))
          ELSE <<>>)
         \o ContextBlocks(Tail(prev), outs)

\* user_message = phase_config['prompt'], with the context in front when phase_num > 1
WithContext(n, phase_config, phases, outs) ==
    IF n > 1
    THEN <<PREVIOUS_HEADER>> \o ContextBlocks(PreviousPhases(phases, n), outs)
         \o <<NL>> \o phase_config.prompt
    ELSE phase_config.prompt

\* if self.topic: user_message = f"Topic/Product: {self.topic}\n\n" + user_message
WithTopic(t, message) ==
    IF t # <<>> THEN <<TOPIC_LABEL>> \o t \o <<NLNL>> \o message ELSE message

\* BuildUserMessage with the topic added to the first phase only
BuildUserMessage_topic_once(n, phase_config, phases, outs, t) ==
    IF n = 1
    THEN WithTopic(t, WithContext(n, phase_config, phases, outs))
    ELSE WithContext(n, phase_config, phases, outs)

BuildUserMessage(n, phase_config, phases, outs, t) ==
    WithTopic(t, WithContext(n, phase_config, phases, outs))

(***************************************************************************)
(* print_summary: the result file                                          *)
(***************************************************************************)
DIGITS == <<"0","1","2","3","4","5","6","7","8","9">>

\* datetime.now().strftime('%Y%m%d_%H%M%S') at second t of the session
Timestamp(t) == <<"20250101_00000", DIGITS[t + 1]>>

\* f"Exercise_4_{self.scenario_type}_{timestamp}.txt"
OutputFile(sid, t) == <<"Exercise_4_">> \o sid \o <<"_">> \o Timestamp(t) \o <<".txt">>

\* both loops of print_summary index self.outputs and raise KeyError on a missing key
SummaryReadable(phases, outs) ==
    \A i \in 1..Len(phases) :
        DictHas(outs, summary_key(phases[i])) /\ DictHas(outs, file_key(phases[i]))

\* what the with-block writes: the header and one section per phase
FileContent(sid, t, outs) ==
    [ title  |-> SCENARIOS[sid].name,
      topic  |-> t,
      phases |-> [i \in 1..NumPhases(sid) |->
                    [ num  |-> i,
                      name |-> Upper(SCENARIOS[sid].phases[i].name),
                      text |-> DictGet(outs, file_key(SCENARIOS[sid].phases[i])) ] ] ]

\* open(output_file, 'w'): creates the file or truncates the one that is there
WriteFile(dir, name, content) ==
    [n \in DOMAIN dir \cup {name} |-> IF n = name THEN content ELSE dir[n]]

Event(ev, num, text) == [ev |-> ev, num |-> num, text |-> text]

(***************************************************************************)
(* The process                                                             *)
(***************************************************************************)
EmptyDir == [n \in {} |-> 0]

Fresh(a, v) ==
    /\ argv = a
    /\ configValid = v
    /\ pc = "main"
    /\ choice = <<>>
    /\ scenario = ID_conference
    /\ topic = <<>>
    /\ outputs = <<>>
    /\ phase_num = 0
    /\ user_message = <<>>
    /\ calls = <<>>
    /\ stdout = <<>>
    /\ outcome = "none"
    /\ exit_code = NoExit
    /\ result_file = <<>>

Init ==
    /\ \E a \in ArgvChoices, v \in BOOLEAN : Fresh(a, v)
    /\ files = EmptyDir
    /\ clock = 0
    /\ run_id = 1

\* str(e) of what the completion call raises, and of a failed self.outputs[...] lookup
API_ERROR == <<"APIError">>
KEY_ERROR == <<"KeyError">>

\* exit(1): SystemExit is not an Exception, main's handler does not catch it
SysExit(events) ==
    /\ stdout' = stdout \o events
    /\ outcome' = "exit"
    /\ exit_code' = 1
    /\ pc' = "exited"

\* main's `except Exception` branch: the message with str(e), troubleshooting text,
\* traceback; then main returns and the interpreter exits normally
MainExcept(events, e) ==
    /\ stdout' = stdout \o events \o <<Event("error_workflow", phase_num, e)>>
    /\ outcome' = "error"
    /\ exit_code' = 0
    /\ pc' = "exited"

\* main_args without .lower()
main_args_keeps_case ==
    /\ pc = "main"
    /\ Len(argv) > 1
    /\ scenario' = argv[2]
    /\ topic' = IF Len(argv) > 2 THEN Join(SubSeq(argv, 3, Len(argv))) ELSE topic
    /\ pc' = "init"
    /\ UNCHANGED <<argv, configValid, choice, outputs, phase_num, user_message, calls,
                   stdout, outcome, exit_code, files, result_file, clock, run_id>>

\* main with command-line arguments: scenario = sys.argv[1].lower(), topic = the rest
main_args ==
    /\ pc = "main"
    /\ Len(argv) > 1
    /\ scenario' = Lower(argv[2])
    /\ topic' = IF Len(argv) > 2 THEN Join(SubSeq(argv, 3, Len(argv))) ELSE topic
    /\ pc' = "init"
    /\ UNCHANGED <<argv, configValid, choice, outputs, phase_num, user_message, calls,
                   stdout, outcome, exit_code, files, result_file, clock, run_id>>

\* main without arguments: the menu, input().strip().lower(), the four branches
\* and the fallback to the default
main_interactive ==
    /\ pc = "main"
    /\ Len(argv) = 1
    /\ \E choice_in \in ChoiceInputs, topic_in \in TopicInputs :
         LET c == Lower(Strip(choice_in)) IN
           /\ choice' = c
           /\ IF c = S_1 \/ c = ID_conference
              THEN scenario' = ID_conference /\ topic' = Strip(topic_in) /\ stdout' = stdout
              ELSE IF c = S_2 \/ c = ID_marketing
              THEN scenario' = ID_marketing /\ topic' = Strip(topic_in) /\ stdout' = stdout
              ELSE IF c = S_3 \/ c = ID_research
              THEN scenario' = ID_research /\ topic' = Strip(topic_in) /\ stdout' = stdout
              ELSE IF c = S_4 \/ c = ID_architecture
              THEN scenario' = ID_architecture /\ topic' = Strip(topic_in) /\ stdout' = stdout
              ELSE /\ scenario' = ID_conference
                   /\ topic' = topic
                   /\ stdout' = Append(stdout, Event("invalid_choice", 0, <<>>))
    /\ pc' = "init"
    /\ UNCHANGED <<argv, configValid, outputs, phase_num, user_message, calls,
                   outcome, exit_code, files, result_file, clock, run_id>>

\* Workflow_init without the Config.validate_setup() check
Workflow_init_unvalidated ==
    /\ pc = "init"
    /\ IF scenario \notin ScenarioIds
       THEN /\ SysExit(<<Event("error_scenario", 0, scenario)>>)
            /\ UNCHANGED <<outputs, phase_num>>
       ELSE /\ outputs' = <<>>
            /\ phase_num' = 0
            /\ stdout' = Append(stdout, Event("workflow", 0, topic))
            /\ pc' = "run"
            /\ UNCHANGED <<outcome, exit_code>>
    /\ UNCHANGED <<argv, configValid, choice, scenario, topic, user_message, calls,
                   files, result_file, clock, run_id>>

\* CustomProblemWorkflow.__init__, and the header run() prints
Workflow_init ==
    /\ pc = "init"
    /\ IF ~configValid
       THEN /\ SysExit(<<Event("error_config", 0, <<>>)>>)
            /\ UNCHANGED <<outputs, phase_num>>
       ELSE IF scenario \notin ScenarioIds
       THEN /\ SysExit(<<Event("error_scenario", 0, scenario)>>)
            /\ UNCHANGED <<outputs, phase_num>>
       ELSE /\ outputs' = <<>>
            /\ phase_num' = 0
            /\ stdout' = Append(stdout, Event("workflow", 0, topic))
            /\ pc' = "run"
            /\ UNCHANGED <<outcome, exit_code>>
    /\ UNCHANGED <<argv, configValid, choice, scenario, topic, user_message, calls,
                   files, result_file, clock, run_id>>

\* run()'s loop enters execute_phase: banner, user message, the completion call goes out
execute_phase_call ==
    /\ pc = "run"
    /\ phase_num < NumPhases(scenario)
    /\ LET phases == SCENARIOS[scenario].phases
           i == phase_num + 1
       IN  /\ phase_num' = i
           /\ stdout' = Append(stdout, Event("banner", i, Upper(phases[i].name)))
           /\ user_message' = BuildUserMessage(i, phases[i], phases, outputs, topic)
           /\ calls' = Append(calls, i)
    /\ pc' = "call"
    /\ UNCHANGED <<argv, configValid, choice, scenario, topic, outputs, outcome, exit_code,
                   files, result_file, clock, run_id>>

\* the completion call returns: the reply is stored under the phase's key and printed
execute_phase_return ==
    /\ pc = "call"
    /\ \E reply \in Replies :
         LET phase_config == SCENARIOS[scenario].phases[phase_num] IN
           /\ outputs' = DictSet(outputs, store_key(phase_config), reply)
           /\ stdout' = Append(stdout, Event("output", phase_num, reply))
    /\ pc' = "run"
    /\ UNCHANGED <<argv, configValid, choice, scenario, topic, phase_num, user_message, calls,
                   outcome, exit_code, files, result_file, clock, run_id>>

\* execute_phase_raise with the exception caught inside the loop of run(): the
\* error is printed and the loop goes on with the next phase
execute_phase_raise_caught_in_loop ==
    /\ pc = "call"
    /\ stdout' = Append(stdout, Event("error_workflow", phase_num, API_ERROR))
    /\ pc' = "run"
    /\ UNCHANGED <<argv, configValid, choice, scenario, topic, outputs, phase_num,
                   user_message, calls, outcome, exit_code, files, result_file, clock,
                   run_id>>

\* the completion call raises: nothing in execute_phase or run() catches it
execute_phase_raise ==
    /\ pc = "call"
    /\ MainExcept(<<>>, API_ERROR)
    /\ UNCHANGED <<argv, configValid, choice, scenario, topic, outputs, phase_num, user_message,
                   calls, files, result_file, clock, run_id>>

\* after the loop: print_summary prints, writes the result file, and main reports success
print_summary ==
    /\ pc = "run"
    /\ phase_num = NumPhases(scenario)
    /\ LET phases == SCENARIOS[scenario].phases IN
         IF SummaryReadable(phases, outputs)
         THEN \E now \in clock..MaxClock :
                /\ clock' = now
                /\ files' = WriteFile(files, OutputFile(scenario, now), run_id)
                /\ result_file' = FileContent(scenario, topic, outputs)
                /\ stdout' = stdout \o <<Event("summary", Len(phases), <<>>),
                                         Event("saved", now, OutputFile(scenario, now)),
                                         Event("success", 0, <<>>)>>
                /\ outcome' = "success"
                /\ exit_code' = 0
                /\ pc' = "exited"
         ELSE /\ MainExcept(<<Event("summary", Len(phases), <<>>)>>, KEY_ERROR)
              /\ UNCHANGED <<files, result_file, clock>>
    /\ UNCHANGED <<argv, configValid, choice, scenario, topic, outputs, phase_num, user_message,
                   calls, run_id>>

\* the program is started again in the same working directory
NewRun ==
    /\ pc = "exited"
    /\ run_id < MaxRuns
    /\ \E a \in ArgvChoices, v \in BOOLEAN :
         /\ argv' = a
         /\ configValid' = v
    /\ pc' = "main"
    /\ choice' = <<>>
    /\ scenario' = ID_conference
    /\ topic' = <<>>
    /\ outputs' = <<>>
    /\ phase_num' = 0
    /\ user_message' = <<>>
    /\ calls' = <<>>
    /\ stdout' = <<>>
    /\ outcome' = "none"
    /\ exit_code' = NoExit
    /\ result_file' = <<>>
    /\ run_id' = run_id + 1
    /\ UNCHANGED <<files, clock>>

Next ==
    \/ main_args
    \/ main_interactive
    \/ Workflow_init
    \/ execute_phase_call
    \/ execute_phase_return
    \/ execute_phase_raise
    \/ print_summary

Spec == Init /\ [][Next]_vars

NextRuns == Next \/ NewRun

SpecRuns == Init /\ [][NextRuns]_vars

(***************************************************************************)
(* Reading the state                                                       *)
(***************************************************************************)
\* the phase list of the running scenario
Phases == SCENARIOS[scenario].phases

\* does pat occur in msg at position p
OccursAt(msg, pat, p) ==
    /\ p + Len(pat) - 1 <= Len(msg)
    /\ SubSeq(msg, p, p + Len(pat) - 1) = pat

\* the first position >= p where pat occurs in msg, 0 if there is none
RECURSIVE FindFrom(_, _, _)
FindFrom(msg, pat, p) ==
    IF p + Len(pat) - 1 > Len(msg) THEN 0
    ELSE IF OccursAt(msg, pat, p) THEN p
    ELSE FindFrom(msg, pat, p + 1)

\* the position just after the last of pats, when they occur in msg from position p
\* on, one after the other in the order given without overlap; 0 if they do not
RECURSIVE InOrderEnd(_, _, _)
InOrderEnd(msg, pats, p) ==
    IF pats = <<>> THEN p
    ELSE LET q == FindFrom(msg, Head(pats), p) IN
           IF q = 0 THEN 0 ELSE InOrderEnd(msg, Tail(pats), q + Len(Head(pats)))

\* the replies the completion collaborator gave in this invocation, in order: the
\* texts execute_phase printed
Replied == SelectSeq(stdout, LAMBDA e : e.ev = "output")

\* phases whose completion call raised, read off the error messages main printed
FailedPhases ==
    { stdout[i].num : i \in { j \in 1..Len(stdout) :
                               stdout[j].ev = "error_workflow" /\ stdout[j].text = API_ERROR } }

\* the display name of phase j followed by the reply phase j received
NamedOutput(j) == Phases[j].name \o <<COLON_NL>> \o Replied[j].text

(***************************************************************************)
(* C1: the user message built for phase i > 1 contains, for every phase    *)
(* 1..i-1, that phase's display name followed by its full stored output,   *)
(* in the scenario's phase order, none omitted, and the phase's own prompt *)
(* comes after that block (it ends the message).                           *)
(***************************************************************************)
C1_ContextHasAllPreviousOutputs ==
    (pc = "call" /\ phase_num > 1) =>
        LET i == phase_num
            prompt == Phases[i].prompt
            blocks == [j \in 1..(i - 1) |-> NamedOutput(j)]
            after == InOrderEnd(user_message, blocks, 1)
        IN  /\ Len(Replied) = i - 1
            /\ \A j \in 1..(i - 1) :
                 /\ DictHas(outputs, store_key(Phases[j]))
                 /\ DictGet(outputs, store_key(Phases[j])) = Replied[j].text
            /\ after # 0
            /\ after <= Len(user_message) - Len(prompt) + 1
            /\ OccursAt(user_message, prompt, Len(user_message) - Len(prompt) + 1)

\* the last phase is being called and the earlier phases did not all get the same reply
C1_Witness ==
    /\ pc = "call"
    /\ phase_num = NumPhases(scenario)
    /\ phase_num > 2
    /\ Replied[1].text # Replied[2].text

(***************************************************************************)
(* C2: when the completion call of phase k fails, no completion call is    *)
(* issued for a later phase, the keys of phases k..N are absent from the   *)
(* outputs, the outputs of phases 1..k-1 are still there as they were      *)
(* received, and the call is not retried: no phase is called twice.        *)
(***************************************************************************)
C2_FailureStopsChain ==
    /\ \A a, b \in 1..Len(calls) : calls[a] = calls[b] => a = b
    /\ \A k \in FailedPhases :
         /\ pc = "exited"
         /\ calls = [i \in 1..k |-> i]
         /\ \A j \in k..NumPhases(scenario) : ~DictHas(outputs, store_key(Phases[j]))
         /\ Len(outputs) = k - 1
         /\ \A j \in 1..(k - 1) :
              outputs[j] = [key |-> store_key(Phases[j]), value |-> Replied[j].text]

\* the call of the third phase failed after two phases were stored
C2_Witness ==
    /\ pc = "exited"
    /\ FailedPhases = {3}
    /\ Len(outputs) = 2

(***************************************************************************)
(* C3: a run exits with success status only when every phase completed; a  *)
(* configuration failure or the failure of the completion call of phase k  *)
(* prints a diagnostic naming phase k and exits with a failure status.     *)
(***************************************************************************)
C3_FailureExitsWithFailureStatus ==
    pc = "exited" =>
        /\ exit_code = 0 =>
             /\ outcome = "success"
             /\ Len(outputs) = NumPhases(scenario)
        /\ outcome = "exit" =>
             /\ exit_code # 0
             /\ \E i \in 1..Len(stdout) : stdout[i].ev \in {"error_config", "error_scenario"}
        /\ \A k \in FailedPhases :
             /\ exit_code # 0
             /\ \E i \in 1..Len(stdout) :
                  stdout[i] = Event("banner", k, Upper(Phases[k].name))

(***************************************************************************)
(* C4: a run in which every completion call succeeds ends with exactly     *)
(* len(phases) entries in the outputs, the i-th inserted entry under the   *)
(* normalized name of the i-th phase, and the keys pairwise distinct.      *)
(***************************************************************************)
\* k is n in lowercase with every space turned into an underscore
IsNormalizedKey(n, k) ==
    /\ Len(k) = Len(n)
    /\ \A i \in 1..Len(n) :
         /\ n[i] = " " => k[i] = "_"
         /\ n[i] # " " => k[i] = LowerChar(n[i])
         /\ k[i] \notin { UPPERCASE[c] : c \in 1..26 }

\* the four keys of the marketing scenario
MarketingKeys ==
    << <<"m","a","r","k","e","t","_","a","n","a","l","y","s","i","s">>,
       <<"s","t","r","a","t","e","g","y","_","d","e","v","e","l","o","p","m","e","n","t">>,
       <<"t","a","c","t","i","c","a","l","_","p","l","a","n","n","i","n","g">>,
       <<"s","u","c","c","e","s","s","_","m","e","t","r","i","c","s">> >>

AllPhasesReturned ==
    \/ pc = "exited" /\ outcome = "success"
    \/ pc = "run" /\ phase_num = NumPhases(scenario)

C4_OneEntryPerPhaseInOrder ==
    AllPhasesReturned =>
        /\ Len(outputs) = NumPhases(scenario)
        /\ \A i \in 1..Len(outputs) :
             /\ i <= NumPhases(scenario)
             /\ IsNormalizedKey(Phases[i].name, outputs[i].key)
             /\ outputs[i].value = Replied[i].text
        /\ \A i, j \in 1..Len(outputs) : outputs[i].key = outputs[j].key => i = j
        /\ scenario = ID_marketing => DictKeys(outputs) = MarketingKeys

\* the marketing run of the end-to-end example has finished
C4_Witness ==
    /\ pc = "exited"
    /\ outcome = "success"
    /\ scenario = ID_marketing
    /\ topic = T_Smart \o <<" ">> \o T_Home
    /\ Len(outputs) = 4

(***************************************************************************)
(* C5: a completion call is issued only if the configuration validated     *)
(* and the scenario id is one of the four; when either check fails the     *)
(* construction ends the process with no phase executed and no call made.  *)
(***************************************************************************)
C5_NoCallBeforeValidation ==
    /\ calls # <<>> => configValid /\ scenario \in ScenarioIds
    /\ pc \in {"run", "call"} => configValid /\ scenario \in ScenarioIds
    /\ (pc = "exited" /\ (~configValid \/ scenario \notin ScenarioIds)) =>
         /\ outcome = "exit"
         /\ calls = <<>>
         /\ phase_num = 0
         /\ outputs = <<>>
         /\ Replied = <<>>

\* "banquet" on the command line with a valid configuration: stopped in the constructor
C5_Witness ==
    /\ pc = "exited"
    /\ configValid
    /\ scenario = S_banquet
    /\ calls = <<>>

(***************************************************************************)
(* C6: with a non-empty topic the user message of every phase begins with  *)
(* "Topic/Product: <topic>" and a blank line, and the previous-phase block *)
(* and the prompt come after it; with an empty topic the user message of   *)
(* no phase begins with that prefix.                                       *)
(***************************************************************************)
C6_TopicPrefix ==
    pc = "call" =>
        LET prefix == <<TOPIC_LABEL>> \o topic \o <<NLNL>>
            prompt == Phases[phase_num].prompt
        IN  IF topic # <<>>
            THEN /\ OccursAt(user_message, prefix, 1)
                 /\ IF phase_num > 1
                    THEN /\ OccursAt(user_message, <<PREVIOUS_HEADER>>, Len(prefix) + 1)
                         /\ FindFrom(user_message, prompt, Len(prefix) + 2) # 0
                    ELSE user_message = prefix \o prompt
            ELSE /\ user_message # <<>>
                 /\ Head(user_message) # TOPIC_LABEL
                 /\ IF phase_num > 1
                    THEN Head(user_message) = PREVIOUS_HEADER
                    ELSE user_message = prompt

\* a later phase of a run with a topic of two words is being called
C6_Witness ==
    /\ pc = "call"
    /\ phase_num = 3
    /\ topic = T_Smart \o <<" ">> \o T_Home

(***************************************************************************)
(* C7: without arguments, a menu input that is none of 1-4 and none of     *)
(* the four names selects the default scenario conference and the run      *)
(* goes on; with arguments, the first one is compared with the four ids    *)
(* ignoring case, and one that matches none ends the process with no       *)
(* phase run.                                                              *)
(***************************************************************************)
MenuNumbers == <<S_1, S_2, S_3, S_4>>
MenuNames == <<ID_conference, ID_marketing, ID_research, ID_architecture>>

SameIgnoringCase(a, b) == Upper(a) = Upper(b)

C7_ScenarioSelection ==
    pc # "main" =>
        IF Len(argv) = 1
        THEN /\ \A n \in 1..Len(MenuNames) :
                  (choice = MenuNumbers[n] \/ choice = MenuNames[n]) => scenario = MenuNames[n]
             /\ (\A n \in 1..Len(MenuNames) : choice # MenuNumbers[n] /\ choice # MenuNames[n])
                  => scenario = ID_conference /\ topic = <<>>
             /\ configValid => outcome # "exit"
             /\ (configValid /\ pc = "exited") => calls # <<>>
        ELSE IF \E id \in ScenarioIds : SameIgnoringCase(argv[2], id)
        THEN /\ scenario \in ScenarioIds
             /\ SameIgnoringCase(argv[2], scenario)
             /\ configValid => outcome # "exit"
             /\ (configValid /\ pc = "exited") => calls # <<>>
        ELSE /\ pc \in {"init", "exited"}
             /\ calls = <<>>
             /\ outputs = <<>>
             /\ pc = "exited" => outcome = "exit" /\ exit_code = 1

\* the menu was answered with 5 and the conference run completed
C7_Witness ==
    /\ Len(argv) = 1
    /\ choice = S_5
    /\ scenario = ID_conference
    /\ pc = "exited"
    /\ outcome = "success"

(***************************************************************************)
(* C8: the result file of a run has a name no other run used: writing it   *)
(* never replaces a file that an earlier run wrote.                        *)
(***************************************************************************)
C8_NeverOverwritesPriorResult ==
    [][\A n \in DOMAIN files : n \in DOMAIN files' /\ files'[n] = files[n]]_vars

(***************************************************************************)
(* C9: the storage key of a phase is its name in lowercase with spaces     *)
(* replaced by underscores; normalizing a key again gives the same key;    *)
(* the store, the context build, the summary and the file write compute    *)
(* the same key, so every read finds what was stored; and two phases of a  *)
(* scenario with distinct names have distinct keys.                        *)
(***************************************************************************)
\* the keys of the scenario table, at the four places that compute them
TableKeysAgree ==
    \A sid \in ScenarioIds : \A i, j \in 1..NumPhases(sid) :
        LET p == SCENARIOS[sid].phases[i]
            q == SCENARIOS[sid].phases[j]
        IN  /\ IsNormalizedKey(p.name, store_key(p))
            /\ context_key(p) = store_key(p)
            /\ summary_key(p) = store_key(p)
            /\ file_key(p) = store_key(p)
            /\ store_key([p EXCEPT !.name = store_key(p)]) = store_key(p)
            /\ p.name # q.name => store_key(p) # store_key(q)

C9_KeyNormalization ==
    /\ TableKeysAgree
    /\ pc \in {"run", "call", "exited"} /\ scenario \in ScenarioIds =>
         /\ Len(outputs) = Len(Replied)
         /\ \A i \in 1..Len(Replied) :
              /\ i <= NumPhases(scenario)
              /\ DictHas(outputs, context_key(Phases[i]))
              /\ DictGet(outputs, context_key(Phases[i])) = Replied[i].text
              /\ DictHas(outputs, summary_key(Phases[i]))
              /\ DictGet(outputs, summary_key(Phases[i])) = Replied[i].text
         /\ result_file # <<>> =>
              \A i \in 1..NumPhases(scenario) : result_file.phases[i].text = Replied[i].text

\* the research run, whose last phase name has a character that is neither a letter
\* nor a space, has written its result file
C9_Witness ==
    /\ pc = "exited"
    /\ scenario = ID_research
    /\ result_file # <<>>
    /\ Len(outputs) = 4

(***************************************************************************)
(* C10: a run moves NotStarted, RunningPhase(1), ..., RunningPhase(N),     *)
(* Completed, or from RunningPhase(i) to Failed(i); the call of phase i+1  *)
(* goes out only after the reply of phase i is stored; a reply is stored   *)
(* whole in one step; a stored entry is never changed or removed; the      *)
(* summary and the result file are produced only in Completed.             *)
(***************************************************************************)
RunState ==
    IF pc \in {"main", "init"} THEN <<"NotStarted", 0>>
    ELSE IF pc = "call" THEN <<"RunningPhase", phase_num>>
    ELSE IF pc = "run"
    THEN (IF phase_num = 0 THEN <<"NotStarted", 0>>
          ELSE IF phase_num < NumPhases(scenario) THEN <<"RunningPhase", phase_num>>
          ELSE <<"Completed", phase_num>>)
    ELSE IF outcome = "success" THEN <<"Completed", phase_num>>
    ELSE IF outcome = "exit" THEN <<"NotStarted", 0>>
    ELSE IF phase_num \in FailedPhases THEN <<"Failed", phase_num>>
    ELSE <<"Crashed", phase_num>>

Summaries == SelectSeq(stdout, LAMBDA e : e.ev = "summary")

C10_Step ==
    /\ \/ RunState' = RunState
       \/ RunState[1] = "NotStarted" /\ RunState' = <<"RunningPhase", 1>>
       \/ /\ RunState[1] = "RunningPhase"
          /\ \/ RunState' = <<"RunningPhase", RunState[2] + 1>>
             \/ RunState' = <<"Failed", RunState[2]>>
             \/ RunState[2] = NumPhases(scenario) /\ RunState' = <<"Completed", RunState[2]>>
    /\ calls' # calls =>
         /\ pc = "run"
         /\ Len(outputs) = phase_num
         /\ Len(Replied) = phase_num
         /\ calls' = Append(calls, phase_num + 1)
    /\ outputs' # outputs =>
         /\ pc = "call"
         /\ Len(outputs') = Len(outputs) + 1
         /\ \A i \in 1..Len(outputs) : outputs'[i] = outputs[i]
         /\ outputs'[Len(outputs')].value \in Replies
    /\ (files' # files \/ result_file' # result_file \/ Summaries' # Summaries) =>
         /\ RunState = <<"Completed", NumPhases(scenario)>>
         /\ Len(outputs) = NumPhases(scenario)

C10_SequentialStateMachine == [][C10_Step]_vars

\* the call of the second phase has failed
C10_Witness ==
    /\ RunState = <<"Failed", 2>>
    /\ Len(outputs) = 1
    /\ calls = <<1, 2>>
====
